---------------------------- MODULE Spec2Model ----------------------------
(***************************************************************************)
(* A model of terminal-agent (src/terminal_agent): the response parser,    *)
(* the ReAct loop of TerminalAgent.process and the session state of        *)
(* TerminalCrew (working directory, command history, the four tools).      *)
(*                                                                         *)
(* Text is modelled as a sequence of tokens.  A marker token stands for    *)
(* the marker's characters up to and including its colon ("Action:"); the  *)
(* blank that the regular expressions demand after a leading marker is a   *)
(* token of its own (SP), so that "Action: x" and "Action:x" differ.       *)
(***************************************************************************)
EXTENDS Integers, Sequences, FiniteSets, TLC

(***************************************************************************)
(* Tokens                                                                  *)
(***************************************************************************)
FA    == "Final Answer:"
TH    == "Thought:"
AC    == "Action:"
AI    == "Action Input:"
OB    == "Observation:"
\* three backquotes, the fence of a code block
FENCE == "<fence>"
SP    == " "
NL    == "\n"
X     == "x"

Whitespace == {SP, NL}

\* Bound on the number of segments of the texts handed to the parser on its own.
MaxSegments == 4

\* The segments those texts are built from: the markers that open a match,
\* with the blank after them and (Final Answer:, Action:) without it, the
\* Observation: marker, the fence, a word and a newline.
Segments ==
    { <<FA, SP>>, <<FA>>, <<TH, SP>>, <<AC, SP>>, <<AC>>,
      <<AI, SP>>, <<OB>>, <<FENCE>>, <<X>>, <<NL>> }

RECURSIVE ConcatsUpTo(_, _)
ConcatsUpTo(S, n) ==
    IF n = 0 THEN {<< >>}
    ELSE LET shorter == ConcatsUpTo(S, n - 1)
         IN  shorter \cup {s \o c : s \in shorter, c \in S}

Texts == ConcatsUpTo(Segments, MaxSegments)

(***************************************************************************)
(* str.strip(), the (in) substring test, and the pieces of re.search that  *)
(* parse_agent_response uses.                                              *)
(***************************************************************************)
RECURSIVE LStrip(_)
LStrip(s) ==
    IF s # << >> /\ Head(s) \in Whitespace THEN LStrip(Tail(s)) ELSE s

RECURSIVE RStrip(_)
RStrip(s) ==
    IF s # << >> /\ s[Len(s)] \in Whitespace
    THEN RStrip(SubSeq(s, 1, Len(s) - 1))
    ELSE s

\* strip() that forgets the trailing whitespace
StripLeadingOnly(s) == LStrip(s)

Strip(s) == RStrip(LStrip(s))

\* pat occurs in s at position i
OccursAt(s, pat, i) ==
    /\ i >= 1
    /\ i + Len(pat) - 1 <= Len(s)
    /\ SubSeq(s, i, i + Len(pat) - 1) = pat

\* Python's (pat in s)
Contains(s, pat) == \E i \in 1..(Len(s) + 1) : OccursAt(s, pat, i)

\* The leftmost position at which the literal pat occurs in s, 0 when none.
FirstOccurrence(s, pat) ==
    IF Contains(s, pat)
    THEN CHOOSE i \in 1..(Len(s) + 1) :
            /\ OccursAt(s, pat, i)
            /\ \A j \in 1..(i - 1) : ~OccursAt(s, pat, j)
    ELSE 0

\* The anchor $ without re.MULTILINE: at the end of the string, and just before a
\* newline that ends the string.  Position p is the gap before s[p].
EndAnchor(s, p) ==
    \/ p = Len(s) + 1
    \/ p = Len(s) /\ s[p] = NL

\* The group of the greedy (.*) in place of (.*?): up to the last place where
\* a stop token or $ matches.
GreedyGroup(s, from, stops) ==
    LET ends == {p \in from..(Len(s) + 1) :
                    \/ p = Len(s) + 1
                    \/ p = Len(s) /\ s[p] = NL
                    \/ p <= Len(s) /\ s[p] \in stops}
        e == CHOOSE p \in ends : \A q \in ends : p >= q
    IN  SubSeq(s, from, e - 1)

\* (.*?)(?:stop1|stop2|$) with re.DOTALL, entered at position from: the
\* shortest stretch after which a stop token or $ matches.
LazyGroup(s, from, stops) ==
    LET ends == {p \in from..(Len(s) + 1) :
                    \/ EndAnchor(s, p)
                    \/ p <= Len(s) /\ s[p] \in stops}
        e == CHOOSE p \in ends : \A q \in ends : p <= q
    IN  SubSeq(s, from, e - 1)

\* re.search(lead + "(.*?)(?:stops|$)", s, re.DOTALL): the match object as
\* [found, group1].
Search(s, lead, stops) ==
    LET i == FirstOccurrence(s, lead)
    IN  IF i = 0
        THEN [found |-> FALSE, group |-> << >>]
        ELSE [found |-> TRUE, group |-> LazyGroup(s, i + Len(lead), stops)]

(***************************************************************************)
(* AgentAction, AgentFinish                                                *)
(***************************************************************************)
AgentFinish(output, log) ==
    [kind |-> "AgentFinish", output |-> output, log |-> log]

AgentAction(tool, tool_input, log) ==
    [kind |-> "AgentAction", tool |-> tool, tool_input |-> tool_input, log |-> log]

(***************************************************************************)
(* TerminalAgent.parse_agent_response: the pair (action_or_finish, is_done) *)
(***************************************************************************)
\* The parser whose fallback hands back the Finish with the flag of an Action.
parse_agent_responseOpenFallback(text) ==
    LET final_answer_match == Search(text, <<FA, SP>>, {FENCE})
        action_match       == Search(text, <<AC, SP>>, {AI})
        action_input_match == Search(text, <<AI, SP>>, {OB, TH})
    IN  IF final_answer_match.found
        THEN [obj  |-> AgentFinish(Strip(final_answer_match.group),
                                   <<FA, SP>> \o Strip(final_answer_match.group)),
              done |-> TRUE]
        ELSE IF action_match.found /\ action_input_match.found
        THEN [obj  |-> AgentAction(Strip(action_match.group),
                                   Strip(action_input_match.group), << >>),
              done |-> FALSE]
        ELSE [obj  |-> AgentFinish(Strip(text), Strip(text)), done |-> FALSE]

parse_agent_response(text) ==
    LET final_answer_match == Search(text, <<FA, SP>>, {FENCE})
        thought_match      == Search(text, <<TH, SP>>, {AC, FA})
        action_match       == Search(text, <<AC, SP>>, {AI})
        action_input_match == Search(text, <<AI, SP>>, {OB, TH})
        tool       == Strip(action_match.group)
        tool_input == Strip(action_input_match.group)
        thought    == IF thought_match.found THEN Strip(thought_match.group) ELSE << >>
    IN  IF final_answer_match.found
        THEN [obj  |-> AgentFinish(Strip(final_answer_match.group),
                                   <<FA, SP>> \o Strip(final_answer_match.group)),
              done |-> TRUE]
        ELSE IF action_match.found /\ action_input_match.found
        THEN [obj  |-> AgentAction(tool, tool_input,
                                   <<TH, SP>> \o thought \o <<NL, AC, SP>> \o tool
                                       \o <<NL, AI, SP>> \o tool_input),
              done |-> FALSE]
        ELSE [obj  |-> AgentFinish(Strip(text),
                                   <<"Unparsed response treated as final answer:", SP>>
                                       \o Strip(text)),
              done |-> TRUE]

(***************************************************************************)
(* The filesystem the session runs on.  A path is the sequence of its      *)
(* components below the root; a path text is a sequence of tokens, one per *)
(* component, with a leading "/" token when it is absolute.                *)
(***************************************************************************)
Dirs  == { << >>, <<"proj">> }
Files == { <<"notes.txt">> }

Exists(p) == p \in Dirs \cup Files
IsDir(p)  == p \in Dirs

FileContent(p) == <<X>>

\* The entries of directory p.
Children(p) == {q \in Dirs \cup Files : Len(q) = Len(p) + 1 /\ SubSeq(q, 1, Len(p)) = p}

\* str(path)
PathText(p) == <<"/">> \o p

RECURSIVE Walk(_, _)
Walk(p, parts) ==
    IF parts = << >> THEN p
    ELSE LET c == Head(parts)
         IN  IF c = "."  THEN Walk(p, Tail(parts))
             ELSE IF c = ".." THEN Walk(IF p = << >> THEN p ELSE SubSeq(p, 1, Len(p) - 1),
                                        Tail(parts))
             ELSE Walk(Append(p, c), Tail(parts))

\* (base / path).resolve(): an absolute path replaces the base, "." and ".."
\* are folded away, and a path that does not exist resolves all the same.
Resolve(base, path) ==
    IF path # << >> /\ Head(path) = "/"
    THEN Walk(<< >>, Tail(path))
    ELSE Walk(base, path)

(***************************************************************************)
(* TerminalCrew: the tools.  Each returns the string it returns (ret), the  *)
(* command history and process working directory it leaves behind, and the  *)
(* pairs it appended to the history (recorded).                             *)
(***************************************************************************)
\* the length the history is trimmed to
HistoryCap == 5

ErrorText(msg) == <<"ERROR:", SP>> \o msg

\* What subprocess.run can do: raise, or complete with an exit status and
\* the two captured streams.
Raises(msg)        == [raises |-> TRUE, msg |-> msg]
Completes(rc, out, err) ==
    [raises |-> FALSE, returncode |-> rc, stdout |-> out, stderr |-> err]

\* The history after the append of the normal path, trimmed to its cap.
RecordCapped(history, entry) ==
    LET appended == Append(history, entry)
    IN  IF Len(appended) > HistoryCap THEN Tail(appended) ELSE appended

\* The history after the append of the exception path.
RecordUncapped(history, entry) == Append(history, entry)

\* execute_command without lines 345-347: the output is stdout whatever the
\* exit status.
execute_commandStdoutOnly(command, run, wd, cwd, history) ==
    IF ~IsDir(wd) \/ run.raises
    THEN LET msg == IF ~IsDir(wd) THEN <<"Not a directory:", SP>> \o PathText(wd)
                    ELSE run.msg
         IN  [ret      |-> ErrorText(msg),
              history  |-> RecordUncapped(history, <<command, ErrorText(msg)>>),
              recorded |-> <<<<command, ErrorText(msg)>>>>,
              os_cwd   |-> IF ~IsDir(wd) THEN cwd ELSE wd]
    ELSE [ret      |-> run.stdout,
          history  |-> RecordCapped(history, <<command, run.stdout>>),
          recorded |-> <<<<command, run.stdout>>>>,
          os_cwd   |-> cwd]

execute_command(command, run, wd, cwd, history) ==
    IF ~IsDir(wd)
    THEN \* os.chdir(working_dir) raises: nothing ran, the handler records
         LET msg == <<"Not a directory:", SP>> \o PathText(wd)
         IN  [ret      |-> ErrorText(msg),
              history  |-> RecordUncapped(history, <<command, ErrorText(msg)>>),
              recorded |-> <<<<command, ErrorText(msg)>>>>,
              os_cwd   |-> cwd]
    ELSE IF run.raises
    THEN \* subprocess.run raises after the chdir, which is not undone
         [ret      |-> ErrorText(run.msg),
          history  |-> RecordUncapped(history, <<command, ErrorText(run.msg)>>),
          recorded |-> <<<<command, ErrorText(run.msg)>>>>,
          os_cwd   |-> wd]
    ELSE LET output == IF run.returncode # 0
                       THEN IF run.stdout # << >>
                            THEN run.stdout \o <<NL>> \o run.stderr
                            ELSE run.stderr
                       ELSE run.stdout
         IN  [ret      |-> output,
              history  |-> RecordCapped(history, <<command, output>>),
              recorded |-> <<<<command, output>>>>,
              os_cwd   |-> cwd]

\* read_file without the test of line 374: the read itself fails.
read_fileUnchecked(file_path, wd, cwd, history) ==
    LET full_path == Resolve(wd, file_path)
    IN  [ret     |-> IF ~Exists(full_path) \/ IsDir(full_path)
                     THEN ErrorText(<<"No such file or directory:", SP>>
                                        \o PathText(full_path))
                     ELSE FileContent(full_path),
         history |-> history,
         recorded |-> << >>,
         os_cwd  |-> cwd]

read_file(file_path, wd, cwd, history) ==
    LET full_path == Resolve(wd, file_path)
    IN  [ret     |-> IF ~Exists(full_path)
                     THEN <<"File not found:", SP>> \o file_path
                     ELSE IF IsDir(full_path)
                     THEN ErrorText(<<"Is a directory:", SP>> \o PathText(full_path))
                     ELSE FileContent(full_path),
         history |-> history,
         recorded |-> << >>,
         os_cwd  |-> cwd]

\* One line of the listing: type flag, size, modification time, name.
ListingLine(item) ==
    <<IF IsDir(item) THEN "d" ELSE "-", SP, "size", SP, "mtime", SP, item[Len(item)], NL>>

RECURSIVE Listing(_)
Listing(items) ==
    IF items = << >> THEN << >> ELSE ListingLine(Head(items)) \o Listing(Tail(items))

\* All orders in which iterdir() may yield the entries of a directory.
Orders(S) ==
    {o \in [1..Cardinality(S) -> S] : \A i, j \in 1..Cardinality(S) : i # j => o[i] # o[j]}

list_directory(directory_path, order, wd, cwd, history) ==
    LET full_path == IF directory_path = <<".">> THEN wd ELSE Resolve(wd, directory_path)
    IN  [ret     |-> IF ~Exists(full_path)
                     THEN <<"Directory not found:", SP>> \o directory_path
                     ELSE IF ~IsDir(full_path)
                     THEN ErrorText(<<"Not a directory:", SP>> \o PathText(full_path))
                     ELSE <<"Contents of", SP>> \o PathText(full_path) \o <<":", NL>>
                              \o Listing(order),
         history |-> history,
         recorded |-> << >>,
         os_cwd  |-> cwd]

\* The shell command find_files builds around the pattern.
FindCommand(pattern) ==
    <<"find . -type f -name '">> \o pattern \o <<"' -o -path '*">> \o pattern
        \o <<"*' 2>/dev/null | sort">>

\* find_files that runs its search without going through execute_command's
\* history.
find_filesUnrecorded(pattern, run, wd, cwd, history) ==
    LET r == execute_command(FindCommand(pattern), run, wd, cwd, history)
    IN  [ret     |-> IF Strip(r.ret) = << >>
                     THEN <<"No files matching '">> \o pattern \o <<"' found in", SP>>
                              \o PathText(wd)
                     ELSE <<"Files matching '">> \o pattern \o <<"':", NL>> \o r.ret,
         history |-> history,
         recorded |-> << >>,
         os_cwd  |-> r.os_cwd]

find_files(pattern, run, wd, cwd, history) ==
    LET r == execute_command(FindCommand(pattern), run, wd, cwd, history)
    IN  [ret     |-> IF Strip(r.ret) = << >>
                     THEN <<"No files matching '">> \o pattern \o <<"' found in", SP>>
                              \o PathText(wd)
                     ELSE <<"Files matching '">> \o pattern \o <<"':", NL>> \o r.ret,
         history |-> r.history,
         recorded |-> r.recorded,
         os_cwd  |-> r.os_cwd]

\* TerminalCrew.change_directory: the working directory is assigned before
\* os.chdir, whose failure the handler turns into False.
change_directory(path, wd, cwd) ==
    LET new_path == Resolve(wd, path)
    IN  IF ~Exists(new_path)
        THEN [ok |-> FALSE, working_dir |-> wd, os_cwd |-> cwd]
        ELSE IF ~IsDir(new_path)
        THEN [ok |-> FALSE, working_dir |-> new_path, os_cwd |-> cwd]
        ELSE [ok |-> TRUE, working_dir |-> new_path, os_cwd |-> new_path]

(***************************************************************************)
(* TerminalAgent: the registry and one pass of the loop body               *)
(***************************************************************************)
\* the bound of the while loop of process
max_iterations == 10

\* how many history entries the prompt shows
PromptHistory == 3

EXEC == <<"execute_command">>
READ == <<"read_file">>
LIST == <<"list_directory">>
FIND == <<"find_files">>

\* self.tool_mapping, as TerminalCrew.__init__ fills it
tool_names == {EXEC, READ, LIST, FIND}

NoRun == [raises |-> FALSE, returncode |-> 0, stdout |-> << >>, stderr |-> << >>]

\* What the environment decides during one tool call: whether the call
\* raises past the tool (fault), what subprocess.run does (run), and the
\* order in which iterdir() yields (order).
EnvsFor(tool, tool_input, wd, faults, runs) ==
    LET target == IF tool_input = <<".">> THEN wd ELSE Resolve(wd, tool_input)
    IN  {[fault |-> f, run |-> r, order |-> o] :
            f \in IF tool \in tool_names THEN faults ELSE {FALSE},
            r \in IF tool \in {EXEC, FIND} THEN runs ELSE {NoRun},
            o \in IF tool = LIST /\ IsDir(target) THEN Orders(Children(target))
                  ELSE {<< >>}}

\* tool(tool_input) for a registered tool
CallTool(tool, tool_input, env, wd, cwd, history) ==
    IF tool = EXEC THEN execute_command(tool_input, env.run, wd, cwd, history)
    ELSE IF tool = READ THEN read_file(tool_input, wd, cwd, history)
    ELSE IF tool = LIST THEN list_directory(tool_input, env.order, wd, cwd, history)
    ELSE find_files(tool_input, env.run, wd, cwd, history)

FaultMessage == <<"tool fault">>

\* The call of the tool without the try/except around it.
OnToolExceptionUncaught(msg) ==
    [observation |-> <<"Error executing tool:", SP>> \o msg, propagated |-> TRUE]

\* What process does when the call of a registered tool raises: the
\* try/except turns the exception into the observation.
OnToolException(msg) ==
    [observation |-> <<"Error executing tool:", SP>> \o msg, propagated |-> FALSE]

\* The dispatch without the test of line 219: whatever the name, a tool runs.
DispatchUnregistered(tool, tool_input, env, wd, cwd, history) ==
    LET r == CallTool(tool, tool_input, env, wd, cwd, history)
    IN  [observation |-> r.ret,
         resolved |-> TRUE, raised |-> FALSE, propagated |-> FALSE,
         history |-> r.history, recorded |-> r.recorded, os_cwd |-> r.os_cwd]

\* Lines 217-229 of process: the observation for one Action, and the session
\* state the tool leaves.
Dispatch(tool, tool_input, env, wd, cwd, history) ==
    IF tool \notin tool_names
    THEN [observation |-> <<"Tool execution failed: Tool not found">>,
          resolved |-> FALSE, raised |-> FALSE, propagated |-> FALSE,
          history |-> history, recorded |-> << >>, os_cwd |-> cwd]
    ELSE IF env.fault
    THEN [observation |-> OnToolException(FaultMessage).observation,
          resolved |-> TRUE, raised |-> TRUE,
          propagated |-> OnToolException(FaultMessage).propagated,
          history |-> history, recorded |-> << >>, os_cwd |-> cwd]
    ELSE LET r == CallTool(tool, tool_input, env, wd, cwd, history)
         IN  [observation |-> r.ret,
              resolved |-> TRUE, raised |-> FALSE, propagated |-> FALSE,
              history |-> r.history, recorded |-> r.recorded, os_cwd |-> r.os_cwd]

\* The loop condition with its bound off by one.
LoopContinuesInclusive(done, it) == ~done /\ it <= max_iterations

\* the condition of the while loop
LoopContinues(done, it) == ~done /\ it < max_iterations

\* history[:] in place of history[-3:]
LastEntriesAll(history, n) == history

\* history[-3:]
LastEntries(history, n) ==
    IF Len(history) <= n THEN history
    ELSE SubSeq(history, Len(history) - n + 1, Len(history))

RECURSIVE HistoryText(_)
HistoryText(entries) ==
    IF entries = << >> THEN << >>
    ELSE <<"Command:", SP>> \o Head(entries)[1] \o <<NL, "Output:", SP>>
            \o Head(entries)[2] \o <<NL, NL>> \o HistoryText(Tail(entries))

system_prompt == <<"<system prompt>">>

\* The user prompt process builds from the query and the context.
UserPrompt(query, wd, history) ==
    query \o <<NL, "Current working directory:", SP>> \o PathText(wd)
        \o (IF history # << >>
            THEN <<NL, "Previous command results:", NL>>
                    \o HistoryText(LastEntries(history, PromptHistory))
            ELSE << >>)

final_prompt == <<"<conclude now>">>

Turn(role, content) == [role |-> role, content |-> content]

RECURSIVE SelectSteps(_, _)
SelectSteps(steps, pat) ==
    IF steps = << >> THEN << >>
    ELSE (IF Contains(Head(steps), pat) THEN <<Head(steps)>> ELSE << >>)
            \o SelectSteps(Tail(steps), pat)

\* The dictionary with the log of the Finish in place of its output.
ProcessResultFromLog(aof, steps) ==
    [response_text     |-> aof.log,
     agent_steps       |-> steps,
     commands_executed |-> SelectSteps(steps, <<AC, SP>> \o EXEC)]

\* The dictionary process returns.
ProcessResult(aof, steps) ==
    [response_text     |-> IF aof.kind = "AgentFinish" THEN aof.output
                           ELSE <<"Agent did not complete with a final answer.">>,
     agent_steps       |-> steps,
     commands_executed |-> SelectSteps(steps, <<AC, SP>> \o EXEC)]

(***************************************************************************)
(* State                                                                   *)
(***************************************************************************)
VARIABLES
    pc,                \* where the program stands
    \* TerminalAgent.process
    user_input,        \* the request being processed
    response,          \* the text of the model's latest reply
    action_or_finish,  \* what parse_agent_response made of it
    is_done,           \* the flag parse_agent_response returned with it
    conversation,      \* the turns recorded so far
    agent_steps,       \* the texts exchanged with the model
    iteration,         \* passes of the loop body
    result,            \* what process returned
    \* TerminalCrew
    working_dir,       \* self.working_dir
    os_cwd,            \* the working directory of the process
    command_history,   \* self.command_history
    ret,               \* what the latest call gave back, or printed for the user
    \* bookkeeping of the run, not program state
    sent,              \* the messages handed to chat.send_message in this chat
    dispatched,        \* one record per Action the loop body handled
    directives,        \* forced-conclusion directives sent
    failure,           \* who raised the exception that left process, if any
    executed           \* every (command, output) pair ever recorded

parseVars == <<response, action_or_finish, is_done>>
agentVars == <<user_input, conversation, agent_steps, iteration, result,
               sent, dispatched, directives, failure>>
crewVars  == <<working_dir, os_cwd, command_history, ret, executed>>

vars == <<pc, parseVars, agentVars, crewVars>>

NoResult == [kind |-> "None"]
NoReturn == [op |-> "none"]

\* The session as TerminalCrew.__init__ leaves it, started in the root
\* directory.
InitCrew ==
    /\ working_dir = << >>
    /\ os_cwd = << >>
    /\ command_history = << >>
    /\ ret = NoReturn
    /\ executed = << >>

InitAgent ==
    /\ user_input = <<X>>
    /\ conversation = << >>
    /\ agent_steps = << >>
    /\ iteration = 0
    /\ result = NoResult
    /\ sent = << >>
    /\ dispatched = << >>
    /\ directives = 0
    /\ failure = "none"

(***************************************************************************)
(* The parser on its own: any text, parsed once.                           *)
(***************************************************************************)
InitParse ==
    /\ response \in Texts
    /\ action_or_finish = NoResult
    /\ is_done = FALSE
    /\ pc = "parse"
    /\ InitAgent
    /\ InitCrew

ParseResponse ==
    /\ pc = "parse"
    /\ action_or_finish' = parse_agent_response(response).obj
    /\ is_done' = parse_agent_response(response).done
    /\ pc' = "parsed"
    /\ UNCHANGED <<response, agentVars, crewVars>>

\* The text of a Finish handed to the parser again.
ParseOutputAgain ==
    /\ pc = "parsed"
    /\ action_or_finish.kind = "AgentFinish"
    /\ response' = action_or_finish.output
    /\ action_or_finish' = parse_agent_response(action_or_finish.output).obj
    /\ is_done' = parse_agent_response(action_or_finish.output).done
    /\ pc' = "reparsed"
    /\ UNCHANGED <<agentVars, crewVars>>

NextParse == ParseResponse \/ ParseOutputAgain

SpecParse == InitParse /\ [][NextParse]_vars

(***************************************************************************)
(* TerminalAgent.process, from its call to its return.  Each action ends   *)
(* where process next waits for the model; reply is the text the model     *)
(* answers with, or ModelFails when chat.send_message raises.              *)
(***************************************************************************)
ModelFails == <<"<send_message raises>">>

\* self.model.start_chat(history=[]): the messages of the new chat.
start_chat(history) == history

\* Lines 170-203: the first message, the reply and its parse.
SendInitial(reply) ==
    /\ pc = "process"
    /\ sent' = Append(start_chat(<< >>),
                      system_prompt \o <<NL, NL, "User request:", SP>>
                          \o UserPrompt(user_input, working_dir, command_history))
    /\ IF reply = ModelFails
       THEN /\ pc' = "raised"
            /\ failure' = "model"
            /\ UNCHANGED <<parseVars, conversation, agent_steps, iteration>>
       ELSE /\ pc' = "loop"
            /\ response' = reply
            /\ conversation' =
                  <<Turn("system", system_prompt),
                    Turn("user", UserPrompt(user_input, working_dir, command_history)),
                    Turn("assistant", reply)>>
            /\ action_or_finish' = parse_agent_response(reply).obj
            /\ is_done' = parse_agent_response(reply).done
            /\ agent_steps' = <<reply>>
            /\ iteration' = 0
            /\ UNCHANGED failure
    /\ UNCHANGED <<user_input, result, dispatched, directives, crewVars>>

\* Lines 206-245: one pass of the loop body.
ActStep(reply, env) ==
    /\ pc = "loop"
    /\ LoopContinues(is_done, iteration)
    /\ action_or_finish.kind = "AgentAction"
    /\ LET tool_name   == action_or_finish.tool
           tool_input  == action_or_finish.tool_input
           d           == Dispatch(tool_name, tool_input, env,
                                   working_dir, os_cwd, command_history)
           next_input  == <<OB, SP>> \o d.observation
       IN  /\ iteration' = iteration + 1
           /\ command_history' = d.history
           /\ os_cwd' = d.os_cwd
           /\ executed' = executed \o d.recorded
           /\ ret' = IF d.resolved /\ ~d.raised
                     THEN [op |-> tool_name[1], value |-> d.observation]
                     ELSE ret
           /\ dispatched' = Append(dispatched,
                                   [tool |-> tool_name, tool_input |-> tool_input,
                                    resolved |-> d.resolved, raised |-> d.raised,
                                    observation |-> d.observation])
           /\ IF d.propagated
              THEN /\ pc' = "raised"
                   /\ failure' = "tool"
                   /\ UNCHANGED <<parseVars, conversation, agent_steps, sent>>
              ELSE /\ sent' = Append(sent, next_input)
                   /\ IF reply = ModelFails
                      THEN /\ pc' = "raised"
                           /\ failure' = "model"
                           /\ conversation' = Append(conversation, Turn("user", next_input))
                           /\ agent_steps' = Append(agent_steps, next_input)
                           /\ UNCHANGED parseVars
                      ELSE /\ pc' = "loop"
                           /\ response' = reply
                           /\ conversation' =
                                 conversation \o <<Turn("user", next_input),
                                                   Turn("assistant", reply)>>
                           /\ agent_steps' = agent_steps \o <<next_input, reply>>
                           /\ action_or_finish' = parse_agent_response(reply).obj
                           /\ is_done' = parse_agent_response(reply).done
                           /\ UNCHANGED failure
    /\ UNCHANGED <<user_input, result, directives, working_dir>>

\* The loop is over: its condition fails, or its else branch breaks.
LoopOver ==
    \/ ~LoopContinues(is_done, iteration)
    \/ action_or_finish.kind # "AgentAction"

\* Lines 260-261 without the lines after them: what the parser made of the
\* reply is kept.
ForcedFinishKeepsAction(text) == parse_agent_response(text).obj

\* The Finish made of the log line in place of the reply.
ForcedFinishFromLog(text) ==
    AgentFinish(<<"Forced final answer:", SP>> \o Strip(text),
                <<"Forced final answer:", SP>> \o Strip(text))

\* Lines 263-266: the Finish made of a reply that is still not one.
ForcedFinish(text) ==
    AgentFinish(Strip(text), <<"Forced final answer:", SP>> \o Strip(text))

\* Lines 251-277 when the bound was reached without a Finish: the directive,
\* its reply, and the return.
ForceConclusion(reply) ==
    /\ pc = "loop"
    /\ LoopOver
    /\ iteration >= max_iterations /\ ~is_done
    /\ directives' = directives + 1
    /\ sent' = Append(sent, final_prompt)
    /\ IF reply = ModelFails
       THEN /\ pc' = "raised"
            /\ failure' = "model"
            /\ UNCHANGED <<parseVars, conversation, agent_steps, result>>
       ELSE LET p     == parse_agent_response(reply)
                aof   == IF p.done THEN p.obj ELSE ForcedFinish(reply)
                steps == agent_steps \o <<final_prompt, reply>>
            IN  /\ pc' = "returned"
                /\ response' = reply
                /\ conversation' = conversation \o <<Turn("user", final_prompt),
                                                     Turn("assistant", reply)>>
                /\ agent_steps' = steps
                /\ action_or_finish' = aof
                /\ is_done' = p.done
                /\ result' = ProcessResult(aof, steps)
                /\ UNCHANGED failure
    /\ UNCHANGED <<user_input, iteration, dispatched, crewVars>>

\* Lines 268-277 otherwise: the return.
ReturnResult ==
    /\ pc = "loop"
    /\ LoopOver
    /\ ~(iteration >= max_iterations /\ ~is_done)
    /\ pc' = "returned"
    /\ result' = ProcessResult(action_or_finish, agent_steps)
    /\ UNCHANGED <<parseVars, user_input, conversation, agent_steps, iteration,
                   sent, dispatched, directives, failure, crewVars>>

\* What the environment may decide during the tool call of the pending Action.
StepEnvs(faults, runs) ==
    IF action_or_finish.kind = "AgentAction"
    THEN EnvsFor(action_or_finish.tool, action_or_finish.tool_input, working_dir,
                 faults, runs)
    ELSE {}

\* The replies of the model in the runs explored.
ReplyExec    == <<TH, SP, X, NL, AC, SP>> \o EXEC \o <<NL, AI, SP, X>>
ReplyUnknown == <<TH, SP, X, NL, AC, SP, "no_such_tool", NL, AI, SP, X>>
ReplyFinal   == <<TH, SP, X, NL, FA, SP, X>>
ReplyBoth    == <<AC, SP>> \o EXEC \o <<NL, AI, SP, X, NL, FA, SP, X>>
ReplyPlain   == <<X>>

RunOk     == Completes(0, <<X>>, << >>)
RunFailed == Completes(1, << >>, <<"err">>)
RunRaises == Raises(<<"embedded null byte">>)

InitProcess ==
    /\ pc = "process"
    /\ response = << >>
    /\ action_or_finish = NoResult
    /\ is_done = FALSE
    /\ InitAgent
    /\ InitCrew

\* Runs in which every tool call returns.
AgentReplies == {ReplyExec, ReplyUnknown, ReplyFinal, ReplyBoth, ReplyPlain, ModelFails}

NextAgent ==
    \/ \E reply \in AgentReplies : SendInitial(reply)
    \/ \E reply \in AgentReplies :
          \E env \in StepEnvs({FALSE}, {RunOk}) : ActStep(reply, env)
    \/ \E reply \in AgentReplies : ForceConclusion(reply)
    \/ ReturnResult

SpecAgent == InitProcess /\ [][NextAgent]_vars

\* Runs in which a tool call may raise.
FaultReplies == {ReplyExec, ReplyFinal, ModelFails}

NextFault ==
    \/ \E reply \in FaultReplies : SendInitial(reply)
    \/ \E reply \in FaultReplies :
          \E env \in StepEnvs(BOOLEAN, {RunOk}) : ActStep(reply, env)
    \/ \E reply \in FaultReplies : ForceConclusion(reply)
    \/ ReturnResult

SpecFault == InitProcess /\ [][NextFault]_vars

\* Runs whose replies come with whitespace around them, or with a
\* Final Answer: marker that lacks its blank.
ReplyExecPadded == <<NL>> \o ReplyExec \o <<NL>>
ReplyBothBare   == <<AC, SP>> \o EXEC \o <<NL, AI, SP, X, NL, FA, NL, X>>

LoopReplies      == {ReplyExec, ReplyBothBare, ReplyFinal, ReplyBoth}
DirectiveReplies == {ReplyExec, ReplyExecPadded, ReplyFinal, ReplyPlain, ReplyBoth,
                     ModelFails}

NextLoop ==
    \/ \E reply \in LoopReplies : SendInitial(reply)
    \/ \E reply \in LoopReplies :
          \E env \in StepEnvs({FALSE}, {RunOk}) : ActStep(reply, env)
    \/ \E reply \in DirectiveReplies : ForceConclusion(reply)
    \/ ReturnResult

SpecLoop == InitProcess /\ [][NextLoop]_vars

(***************************************************************************)
(* TerminalCrew on its own: its tools called in any order, and the         *)
(* requests process_request serves without the model.                      *)
(***************************************************************************)
\* Bound on the number of history entries recorded in one session.
MaxRecorded == 6

\* Bound on the number of find_files calls in one session.
MaxFinds == 1

Commands  == {<<X>>}
Patterns  == {<<"*.py">>}
ReadPaths == {<<"notes.txt">>, <<"missing">>}
ListPaths == {<<".">>, <<"missing">>}
CdPaths   == {<<"..">>, <<"proj">>, <<"notes.txt">>, <<"missing">>}
ExecRuns  == {RunOk}
FindRuns  == {RunOk}

\* str.lower() on the words the session looks at
Lower(tok) ==
    IF tok = "CD" THEN "cd"
    ELSE IF tok = "QUIT" THEN "quit"
    ELSE IF tok = "Bye" THEN "bye"
    ELSE tok

CdInputs == {<<"cd", SP>> \o p : p \in CdPaths} \cup {<<"CD", SP, "/", "proj">>}

\* user_input.lower().startswith("cd ")
IsCd(input) == Len(input) >= 2 /\ Lower(input[1]) = "cd" /\ input[2] = SP

InitSession ==
    /\ pc = "prompt"
    /\ response = << >>
    /\ action_or_finish = NoResult
    /\ is_done = FALSE
    /\ InitAgent
    /\ InitCrew

CallExecuteCommand(command, run) ==
    /\ pc = "prompt"
    /\ Len(executed) < MaxRecorded
    /\ LET r == execute_command(command, run, working_dir, os_cwd, command_history)
       IN  /\ command_history' = r.history
           /\ os_cwd' = r.os_cwd
           /\ executed' = executed \o r.recorded
           /\ ret' = [op |-> "execute_command", value |-> r.ret]
    /\ UNCHANGED <<pc, parseVars, agentVars, working_dir>>

CallFindFiles(pattern, run) ==
    /\ pc = "prompt"
    /\ Len(executed) < MaxRecorded
    /\ Cardinality({i \in 1..Len(executed) :
                        \E q \in Patterns : executed[i][1] = FindCommand(q)}) < MaxFinds
    /\ LET r == find_files(pattern, run, working_dir, os_cwd, command_history)
       IN  /\ command_history' = r.history
           /\ os_cwd' = r.os_cwd
           /\ executed' = executed \o r.recorded
           /\ ret' = [op |-> "find_files", value |-> r.ret]
    /\ UNCHANGED <<pc, parseVars, agentVars, working_dir>>

CallReadFile(file_path) ==
    /\ pc = "prompt"
    /\ LET r == read_file(file_path, working_dir, os_cwd, command_history)
       IN  /\ command_history' = r.history
           /\ os_cwd' = r.os_cwd
           /\ ret' = [op |-> "read_file", value |-> r.ret]
    /\ UNCHANGED <<pc, parseVars, agentVars, working_dir, executed>>

CallListDirectory(directory_path, order) ==
    /\ pc = "prompt"
    /\ LET r == list_directory(directory_path, order, working_dir, os_cwd, command_history)
       IN  /\ command_history' = r.history
           /\ os_cwd' = r.os_cwd
           /\ ret' = [op |-> "list_directory", value |-> r.ret]
    /\ UNCHANGED <<pc, parseVars, agentVars, working_dir, executed>>

\* Lines 445-451 of process_request: the request is a cd.
RequestCd(input) ==
    /\ pc = "prompt"
    /\ IsCd(input)
    /\ LET path == Strip(SubSeq(input, 3, Len(input)))
           r    == change_directory(path, working_dir, os_cwd)
       IN  /\ working_dir' = r.working_dir
           /\ os_cwd' = r.os_cwd
           /\ ret' = [op |-> "cd",
                      value |-> IF r.ok THEN <<"Changed directory to:", SP>>
                                                \o PathText(r.working_dir)
                                ELSE <<"Failed to change directory to:", SP>> \o path]
    /\ UNCHANGED <<pc, parseVars, agentVars, command_history, executed>>

\* Sessions of commands, searches and directory changes.
NextCrew ==
    \/ \E command \in Commands, run \in ExecRuns : CallExecuteCommand(command, run)
    \/ \E pattern \in Patterns, run \in FindRuns : CallFindFiles(pattern, run)
    \/ \E input \in CdInputs : RequestCd(input)

SpecCrew == InitSession /\ [][NextCrew]_vars

\* Bound on the number of history entries recorded in a session whose
\* commands may fail.
MaxRuns == 3

RunFailedOut == Completes(2, <<X>>, <<"err">>)

AllRuns == {RunOk, RunFailed, RunFailedOut, RunRaises}

\* Sessions whose commands succeed, fail with and without output, or cannot
\* be run at all.
NextRuns ==
    \/ \E command \in Commands, run \in AllRuns :
          Len(executed) < MaxRuns /\ CallExecuteCommand(command, run)
    \/ \E pattern \in Patterns, run \in AllRuns :
          Len(executed) < MaxRuns /\ CallFindFiles(pattern, run)
    \/ \E input \in CdInputs : RequestCd(input)

SpecRuns == InitSession /\ [][NextRuns]_vars

\* Sessions of all four tools and of directory changes.
NextTools ==
    \/ \E command \in Commands, run \in AllRuns :
          Len(executed) < MaxRuns /\ CallExecuteCommand(command, run)
    \/ \E pattern \in Patterns, run \in AllRuns :
          Len(executed) < MaxRuns /\ CallFindFiles(pattern, run)
    \/ \E file_path \in ReadPaths : CallReadFile(file_path)
    \/ \E directory_path \in ListPaths :
          \E order \in {e.order : e \in EnvsFor(LIST, directory_path, working_dir,
                                                  {FALSE}, {NoRun})} :
             CallListDirectory(directory_path, order)
    \/ \E input \in CdInputs : RequestCd(input)

SpecTools == InitSession /\ [][NextTools]_vars

\* Sessions of commands, reads, listings and directory changes.
NextFiles ==
    \/ \E command \in Commands, run \in ExecRuns : CallExecuteCommand(command, run)
    \/ \E file_path \in ReadPaths : CallReadFile(file_path)
    \/ \E directory_path \in ListPaths :
          \E order \in {e.order : e \in EnvsFor(LIST, directory_path, working_dir,
                                                  {FALSE}, {NoRun})} :
             CallListDirectory(directory_path, order)
    \/ \E input \in CdInputs : RequestCd(input)

SpecFiles == InitSession /\ [][NextFiles]_vars

(***************************************************************************)
(* The session loop of cli.main around TerminalCrew.process_request: one   *)
(* line is read at the prompt and is an exit word, a cd, or a request for  *)
(* the agent, which runs process and renders what it returns.              *)
(***************************************************************************)
LowerText(input) == [i \in 1..Len(input) |-> Lower(input[i])]

\* user_input.lower() in ("exit", "quit", "bye")
IsExit(input) == LowerText(input) \in {<<"exit">>, <<"quit">>, <<"bye">>}

ExitInputs    == {<<"exit">>, <<"QUIT">>, <<"Bye">>}
RequestInputs == {<<X>>, <<"exit", SP>>}
SessionCds    == {<<"cd", SP, "proj">>, <<"cd", SP, "notes.txt">>}

\* The local variables of process when no call of it is under way.
NoProcess ==
    /\ response' = << >>
    /\ action_or_finish' = NoResult
    /\ is_done' = FALSE
    /\ user_input' = <<X>>
    /\ conversation' = << >>
    /\ agent_steps' = << >>
    /\ iteration' = 0
    /\ result' = NoResult
    /\ sent' = << >>
    /\ dispatched' = << >>
    /\ directives' = 0

\* cli.main, lines 59-61: an exit word ends the loop.
ReadExit(input) ==
    /\ pc = "prompt"
    /\ IsExit(input)
    /\ pc' = "exited"
    /\ user_input' = input
    /\ ret' = [op |-> "main", value |-> <<"Goodbye!">>]
    /\ UNCHANGED <<parseVars, conversation, agent_steps, iteration, result, sent,
                   dispatched, directives, failure, working_dir, os_cwd,
                   command_history, executed>>

\* cli.main, lines 56 and 69-72: console.input raises (the input is closed);
\* the handler of the loop reports it and the loop goes round.
InputFails ==
    /\ pc = "prompt"
    /\ ret' = [op |-> "main", value |-> <<"An error occurred:", SP, "EOF when reading a line">>]
    /\ UNCHANGED <<pc, parseVars, agentVars, working_dir, os_cwd, command_history,
                   executed>>

\* cli.main, line 64, and process_request, lines 453-461: any other line
\* that is not a cd is handed to process with the session as context.
ReadRequest(input) ==
    /\ pc = "prompt"
    /\ ~IsExit(input)
    /\ ~IsCd(input)
    /\ Len(executed) < MaxRecorded
    /\ pc' = "process"
    /\ user_input' = input
    /\ ret' = NoReturn
    /\ failure' = "none"
    /\ UNCHANGED <<parseVars, conversation, agent_steps, iteration, result, sent,
                   dispatched, directives, working_dir, os_cwd, command_history,
                   executed>>

Panel(body, title, border_style) ==
    [body |-> body, title |-> title, border_style |-> border_style]

\* The loop of lines 464-474 on the steps from the i-th on: a panel for
\* the steps at even offsets (counted from 0), nothing for the others.
RECURSIVE StepPanels(_, _)
StepPanels(steps, i) ==
    IF i > Len(steps) THEN << >>
    ELSE (IF (i - 1) % 2 = 0
          THEN <<Panel(steps[i], <<"Agent Thinking Step", (i - 1) \div 2 + 1>>, "blue")>>
          ELSE << >>)
            \o StepPanels(steps, i + 1)

\* The loop that shows a panel for every step, whatever its offset.
RenderEveryStep(terminal_result) ==
    [i \in 1..Len(terminal_result.agent_steps) |->
        Panel(terminal_result.agent_steps[i], <<"Agent Thinking Step", i>>, "blue")]
        \o <<Panel(terminal_result.response_text,
                   <<"Terminal Assistant Final Response">>, "green")>>

\* Lines 463-481 of process_request: the panels printed for a result.
Render(terminal_result) ==
    StepPanels(terminal_result.agent_steps, 1)
        \o <<Panel(terminal_result.response_text,
                   <<"Terminal Assistant Final Response">>, "green")>>

\* process returned: process_request prints the panels and returns to the loop.
ShowResult ==
    /\ pc = "returned"
    /\ pc' = "prompt"
    /\ ret' = [op |-> "render", value |-> Render(result)]
    /\ NoProcess
    /\ UNCHANGED <<failure, working_dir, os_cwd, command_history, executed>>

\* An exception that leaves the handler of the request and ends the loop.
OnRequestExceptionUncaught(msg) ==
    [pc |-> "exited", report |-> <<"Error processing request:", SP>> \o msg]

\* Lines 483-484 of process_request: the handler of the request reports the
\* exception; process_request returns and the loop of main goes round.
OnRequestException(msg) ==
    [pc |-> "prompt", report |-> <<"Error processing request:", SP>> \o msg]

\* process raised.
ReportError ==
    /\ pc = "raised"
    /\ pc' = OnRequestException(ModelFails).pc
    /\ ret' = [op |-> "report", value |-> OnRequestException(ModelFails).report]
    /\ NoProcess
    /\ UNCHANGED <<failure, working_dir, os_cwd, command_history, executed>>

\* cli.main, lines 66-68: KeyboardInterrupt, wherever it arrives, passes
\* every handler of Exception, unwinds the call of process if there is one,
\* and ends the loop.
Interrupt ==
    /\ pc \in {"prompt", "process", "loop", "returned", "raised"}
    /\ pc' = "exited"
    /\ failure' = "interrupt"
    /\ ret' = [op |-> "main", value |-> <<"Exiting Terminal Agent...">>]
    /\ NoProcess
    /\ UNCHANGED <<working_dir, os_cwd, command_history, executed>>

SessionReplies == {ReplyExec, ReplyFinal, ModelFails}

NextSession ==
    \/ \E input \in ExitInputs : ReadExit(input)
    \/ InputFails
    \/ \E input \in SessionCds : RequestCd(input)
    \/ \E input \in RequestInputs : ReadRequest(input)
    \/ \E reply \in SessionReplies : SendInitial(reply)
    \/ \E reply \in SessionReplies :
          \E env \in StepEnvs({FALSE}, {RunOk}) : ActStep(reply, env)
    \/ \E reply \in SessionReplies : ForceConclusion(reply)
    \/ ReturnResult
    \/ ShowResult
    \/ ReportError
    \/ Interrupt

SpecSession == InitSession /\ [][NextSession]_vars

(***************************************************************************)
(* Vocabulary of the parser's properties, stated on positions of the text  *)
(* and not through the operators the parser is built from.                 *)
(***************************************************************************)
Positions(text, tok) == {i \in 1..Len(text) : text[i] = tok}

HasToken(text, tok) == Positions(text, tok) # {}

\* The marker tok, followed by the blank the prompt's format puts after it.
HasLead(text, tok) == \E i \in Positions(text, tok) : i < Len(text) /\ text[i + 1] = SP

\* t is s without the whitespace at its two ends.
IsTrimOf(t, s) ==
    \E i \in 1..(Len(s) + 1) : \E j \in (i - 1)..Len(s) :
        /\ t = SubSeq(s, i, j)
        /\ \A k \in 1..(i - 1) : s[k] \in Whitespace
        /\ \A k \in (j + 1)..Len(s) : s[k] \in Whitespace
        /\ (t # << >> => t[1] \notin Whitespace /\ t[Len(t)] \notin Whitespace)

\* The content after position i, up to the first fence or the end.
ContentAfter(text, i) ==
    LET fences == {p \in (i + 1)..Len(text) : text[p] = FENCE}
        e == IF fences = {} THEN Len(text) + 1
             ELSE CHOOSE p \in fences : \A q \in fences : p <= q
    IN  SubSeq(text, i + 1, e - 1)

\* C2: a text that contains a Final Answer: marker parses to a Finish, flag
\* true, whose output is the trimmed content following the marker (up to a
\* fence, as the parser's algorithm has it), whatever Action: and
\* Action Input: markers the text also holds.
C2_FinalAnswerPriority ==
    (pc = "parsed" /\ HasToken(response, FA)) =>
        /\ is_done
        /\ action_or_finish.kind = "AgentFinish"
        /\ \E i \in Positions(response, FA) :
               IsTrimOf(action_or_finish.output, ContentAfter(response, i))

\* One Action: marker and, after it, one Action Input: marker, each followed
\* by its blank, and no Final Answer: marker.
WellFormedAction(text) ==
    /\ ~HasToken(text, FA)
    /\ Cardinality(Positions(text, AC)) = 1
    /\ Cardinality(Positions(text, AI)) = 1
    /\ \E a \in Positions(text, AC) : \E b \in Positions(text, AI) :
          /\ a < b
          /\ text[a + 1] = SP
          /\ b < Len(text) /\ text[b + 1] = SP

\* The text between the Action: marker and the Action Input: marker.
BetweenMarkers(text) ==
    LET a == CHOOSE i \in Positions(text, AC) : TRUE
        b == CHOOSE i \in Positions(text, AI) : TRUE
    IN  SubSeq(text, a + 1, b - 1)

\* The text after the Action Input: marker, up to Observation:, Thought: or
\* the end.
AfterInputMarker(text) ==
    LET b == CHOOSE i \in Positions(text, AI) : TRUE
        stops == {p \in (b + 1)..Len(text) : text[p] \in {OB, TH}}
        e == IF stops = {} THEN Len(text) + 1
             ELSE CHOOSE p \in stops : \A q \in stops : p <= q
    IN  SubSeq(text, b + 1, e - 1)

\* C3: a text with well-formed Action: and Action Input: markers and no
\* Final Answer: marker parses to an Action, flag false, whose tool is the
\* trimmed text between the two markers and whose tool_input is the trimmed
\* text after Action Input: up to Observation:, Thought: or the end.
C3_WellFormedActionParsed ==
    (pc = "parsed" /\ WellFormedAction(response)) =>
        /\ ~is_done
        /\ action_or_finish.kind = "AgentAction"
        /\ IsTrimOf(action_or_finish.tool, BetweenMarkers(response))
        /\ IsTrimOf(action_or_finish.tool_input, AfterInputMarker(response))

C3_Witness ==
    /\ pc = "parsed"
    /\ WellFormedAction(response)
    /\ action_or_finish.kind = "AgentAction"
    /\ action_or_finish.tool = <<X>>
    /\ action_or_finish.tool_input = <<X>>

\* Neither the Final Answer rule nor the Action + Action Input rule applies.
NoRuleMatches(text) ==
    /\ ~HasLead(text, FA)
    /\ ~(HasLead(text, AC) /\ HasLead(text, AI))

\* C4: when neither rule matches (in particular when the text holds no
\* marker at all) the parser returns a Finish whose output is the whole
\* trimmed text, and parsing that output again returns the same text.
C4_FallbackIdempotent ==
    /\ (pc = "parsed" /\ NoRuleMatches(response)) =>
          /\ is_done
          /\ action_or_finish.kind = "AgentFinish"
          /\ IsTrimOf(action_or_finish.output, response)
          /\ parse_agent_response(action_or_finish.output).done
          /\ parse_agent_response(action_or_finish.output).obj.output
                = action_or_finish.output
    /\ (pc = "reparsed" /\ NoRuleMatches(response)) =>
          /\ is_done
          /\ action_or_finish.kind = "AgentFinish"
          /\ action_or_finish.output = response

\* A fallback on a text that holds one of the two action markers, and whose
\* output, parsed again, came back unchanged.
C4_Witness ==
    /\ pc = "reparsed"
    /\ NoRuleMatches(response)
    /\ HasLead(response, AC)
    /\ Len(response) >= 3
    /\ action_or_finish.output = response

\* C13: for every text the parser returns exactly one of Action and Finish,
\* and the flag it returns with it is true exactly when it is a Finish.
C13_ParseTotalExclusive ==
    pc \in {"parsed", "reparsed"} =>
        /\ action_or_finish.kind \in {"AgentAction", "AgentFinish"}
        /\ is_done \in BOOLEAN
        /\ is_done <=> action_or_finish.kind = "AgentFinish"
        /\ action_or_finish.kind = "AgentAction" =>
               DOMAIN action_or_finish = {"kind", "tool", "tool_input", "log"}
        /\ action_or_finish.kind = "AgentFinish" =>
               DOMAIN action_or_finish = {"kind", "output", "log"}

\* A text with no marker that has its blank, parsed to a Finish by the fallback.
C13_Witness ==
    /\ pc = "parsed"
    /\ response = <<AC, X, NL>>
    /\ action_or_finish.kind = "AgentFinish"
    /\ is_done

(***************************************************************************)
(* Properties of TerminalAgent.process                                     *)
(***************************************************************************)
Returned == pc \in {"returned", "raised"}

\* C1: one call of process performs at most 10 tool dispatches, sends at
\* most one forced-conclusion directive and makes at most 12 model calls;
\* it is never stuck before it returns, and every step it takes either
\* makes a model call or returns.
C1_BoundedRun ==
    /\ [](/\ Len(dispatched) <= 10
          /\ directives <= 1
          /\ Len(sent) <= 12
          /\ (~Returned => ENABLED NextAgent))
    /\ [][Len(sent') = Len(sent) + 1 \/ pc' = "returned"]_vars

\* A run of 10 round trips, the directive and the return.
C1_Witness ==
    /\ pc = "returned"
    /\ Len(dispatched) = 10
    /\ directives = 1
    /\ Len(sent) = 12

\* C7: when a registered tool raises, the observation is
\* Error executing tool: <message>, it is recorded and sent to the model as
\* the next user turn, the model's reply to it is parsed, and the exception
\* never leaves process.
C7_ToolFailureAbsorbed ==
    /\ failure # "tool"
    /\ \A i \in 1..Len(dispatched) :
          dispatched[i].raised =>
             LET turn == <<OB, SP, "Error executing tool:", SP>> \o FaultMessage
             IN  /\ dispatched[i].resolved
                 /\ sent[i + 1] = turn
                 /\ agent_steps[2 * i] = turn
                 /\ conversation[2 * i + 2] = Turn("user", turn)
                 /\ (failure = "none" =>
                        /\ Len(agent_steps) >= 2 * i + 1
                        /\ conversation[2 * i + 3].role = "assistant"
                        /\ conversation[2 * i + 3].content = agent_steps[2 * i + 1])

\* A tool raised in the first round trip and the loop went on to a second.
C7_Witness ==
    /\ pc = "returned"
    /\ Len(dispatched) >= 2
    /\ dispatched[1].raised
    /\ ~dispatched[2].raised

\* The output the parser gives a Finish for text: the trimmed content after
\* the first Final Answer: marker that has its blank, up to a fence, or the
\* whole trimmed text when there is none.
IsFinishTextOf(out, text) ==
    LET leads == {i \in Positions(text, FA) : i < Len(text) /\ text[i + 1] = SP}
    IN  IF leads = {} THEN IsTrimOf(out, text)
        ELSE IsTrimOf(out, ContentAfter(text, CHOOSE i \in leads : \A j \in leads : i <= j))

\* C8: a run of k round trips that ends because a reply is a Finish returns
\* 2k+1 agent steps, the odd ones the k+1 replies of the model in order, the
\* even ones the k observations, each starting with Observation: ; and
\* response_text is the answer text of the last reply.
C8_StepsAlternate ==
    (pc = "returned" /\ directives = 0) =>
        LET k     == Len(dispatched)
            steps == result.agent_steps
        IN  /\ is_done
            /\ Len(steps) = 2 * k + 1
            /\ \A j \in 0..k :
                  /\ conversation[2 * j + 3].role = "assistant"
                  /\ steps[2 * j + 1] = conversation[2 * j + 3].content
            /\ \A i \in 1..k :
                  /\ steps[2 * i] = <<OB, SP>> \o dispatched[i].observation
                  /\ conversation[2 * i + 2] = Turn("user", steps[2 * i])
            /\ IsFinishTextOf(result.response_text, steps[2 * k + 1])

\* The scenario of one round trip: two replies and one observation.
C8_Witness ==
    /\ pc = "returned"
    /\ directives = 0
    /\ Len(dispatched) = 1
    /\ Len(result.agent_steps) = 3
    /\ result.response_text = <<X>>

\* The replies whose Action the loop dispatched to execute_command.
RECURSIVE StepsThatRan(_)
StepsThatRan(i) ==
    IF i = 0 THEN << >>
    ELSE StepsThatRan(i - 1)
            \o (IF dispatched[i].tool = EXEC /\ dispatched[i].resolved
                THEN <<agent_steps[2 * i - 1]>> ELSE << >>)

\* C9: commands_executed is exactly the list of the agent steps whose action
\* was dispatched to execute_command, and is empty when none was.
C9_CommandsExecutedExact ==
    pc = "returned" => result.commands_executed = StepsThatRan(Len(dispatched))

\* The Actions dispatched so far that name no tool of the registry.
UnknownDispatches ==
    {i \in 1..Len(dispatched) :
        dispatched[i].tool \notin {<<"execute_command">>, <<"read_file">>,
                                   <<"list_directory">>, <<"find_files">>}}

\* C15: an Action that names a tool outside the registry runs no tool; its
\* observation is the fixed text Tool execution failed: Tool not found,
\* sent to the model as the next turn; the round trip counts toward the
\* bound of 10; and the loop goes on with the model's next reply.
C15_UnknownToolObserved ==
    /\ \A i \in UnknownDispatches :
          LET turn == <<OB, SP, "Tool execution failed: Tool not found">>
          IN  /\ ~dispatched[i].resolved
              /\ dispatched[i].observation = <<"Tool execution failed: Tool not found">>
              /\ sent[i + 1] = turn
              /\ agent_steps[2 * i] = turn
              /\ (failure = "none" =>
                     /\ Len(agent_steps) >= 2 * i + 1
                     /\ conversation[2 * i + 3] = Turn("assistant", agent_steps[2 * i + 1]))
    /\ Len(executed) = Len(dispatched) - Cardinality(UnknownDispatches)
    /\ pc \in {"loop", "returned"} => iteration = Len(dispatched)
    /\ Len(dispatched) <= 10

\* Ten round trips, each for an unknown tool, used up the bound.
C15_Witness ==
    /\ pc = "returned"
    /\ directives = 1
    /\ Cardinality(UnknownDispatches) = 10
    /\ executed = << >>

\* The replies of the model among the agent steps, numbered from 0: the
\* reply numbered j is what the round trip numbered j + 1 acts on.
ReplyNumbers == {j \in 0..Len(agent_steps) : 2 * j + 1 <= Len(agent_steps)}

\* C16: once a reply has been parsed as a Finish, process makes no further
\* model call and invokes no tool; and a reply that holds a Final Answer:
\* marker together with Action: and Action Input: markers never has a tool
\* invoked for it.
C16_DoneIsTerminal ==
    /\ \A j \in ReplyNumbers :
          parse_agent_response(agent_steps[2 * j + 1]).done =>
             /\ Len(agent_steps) = 2 * j + 1
             /\ Len(dispatched) <= j
             /\ Len(sent) = j + 1
    /\ \A j \in ReplyNumbers :
          (/\ HasToken(agent_steps[2 * j + 1], FA)
           /\ HasToken(agent_steps[2 * j + 1], AC)
           /\ HasToken(agent_steps[2 * j + 1], AI)) => Len(dispatched) <= j

\* What C14 says of a run that returned after a directive, but for the text
\* returned: ten round trips, the Action of the reply to the 10th
\* observation not executed, one directive, sent last, and its reply the
\* last step.
ForcedConclusionShape ==
    /\ Len(dispatched) = 10
    /\ Len(executed) <= 10
    /\ ~parse_agent_response(agent_steps[21]).done
    /\ Len(sent) = 12
    /\ {i \in 1..Len(sent) : sent[i] = final_prompt} = {12}
    /\ Len(agent_steps) = 23
    /\ agent_steps[22] = final_prompt
    /\ result.agent_steps = agent_steps
    /\ (parse_agent_response(agent_steps[23]).done =>
           IsFinishTextOf(result.response_text, agent_steps[23]))

\* The directive is sent exactly in the runs of ten round trips whose last
\* reply is not a Finish.
DirectiveWhenDue ==
    pc = "returned" =>
        (directives = 1 <=> (Len(dispatched) = 10 /\ ~parse_agent_response(agent_steps[21]).done))

\* C14: after ten round trips whose last reply is still not a Finish,
\* process sends exactly one directive, does not execute the Action of that
\* reply, and parses the directive's reply; a Finish gives its answer text,
\* and a reply that is still not a Finish is returned verbatim, with no tool
\* invoked for it.
C14_ForcedConclusionVerbatim ==
    /\ DirectiveWhenDue
    /\ (pc = "returned" /\ directives = 1) =>
          /\ ForcedConclusionShape
          /\ (~parse_agent_response(agent_steps[23]).done =>
                 result.response_text = agent_steps[23])

\* C14 as the code has it: a reply to the directive that is still not a
\* Finish is returned without the whitespace at its two ends.
C14_ForcedConclusionTrimmed ==
    /\ DirectiveWhenDue
    /\ (pc = "returned" /\ directives = 1) =>
          /\ ForcedConclusionShape
          /\ (~parse_agent_response(agent_steps[23]).done =>
                 IsTrimOf(result.response_text, agent_steps[23]))

\* The reply to the directive was an Action between two newlines.
C14_Witness ==
    /\ pc = "returned"
    /\ directives = 1
    /\ agent_steps[23] = ReplyExecPadded
    /\ result.response_text = ReplyExec
    /\ Len(dispatched) = 10

(***************************************************************************)
(* Properties of the session                                               *)
(***************************************************************************)
\* C5: the command history never holds more than 5 entries.
C5_HistoryAtMostFive == Len(command_history) <= 5

\* C6: the command history is the last min(n, 5) of the n pairs recorded so
\* far, in the order they were recorded.
C6_HistoryIsFifoWindow == command_history = LastEntries(executed, 5)

\* C10: a cd request makes no model call and invokes no tool; when its
\* target exists both the session's and the process's working directory
\* become the resolved target, and otherwise failure is reported.
C10_CdBypassesModel ==
    [][\A input \in CdInputs :
          RequestCd(input) =>
             LET target == Resolve(working_dir, Strip(SubSeq(input, 3, Len(input))))
             IN  /\ sent' = sent
                 /\ dispatched' = dispatched
                 /\ executed' = executed
                 /\ IF Exists(target)
                    THEN working_dir' = target /\ os_cwd' = target
                    ELSE ret'.value[1] = "Failed to change directory to:"]_vars

(***************************************************************************)
(* Properties of the session loop                                          *)
(***************************************************************************)
\* C11: the session loop never exits because a request fails: when process
\* raises, the exception is reported and the loop is back at its prompt;
\* the loop is left only by an interrupt or, at the prompt, by the input
\* exit, quit or bye in any letter case; and it is never stuck before that.
C11_LoopSurvivesFailedRequest ==
    /\ [](pc # "exited" => ENABLED NextSession)
    /\ [][(pc = "raised" /\ failure' # "interrupt") =>
              /\ pc' = "prompt"
              /\ ret'.op = "report"
              /\ ret'.value[1] = "Error processing request:"]_vars
    /\ [][(pc' = "exited" /\ failure' # "interrupt") =>
              /\ pc = "prompt"
              /\ Len(user_input') = 1
              /\ Lower(user_input'[1]) \in {"exit", "quit", "bye"}]_vars

\* A model call failed after a tool had run, the failure was reported, and
\* the loop is at its prompt again.
C11_Witness ==
    /\ pc = "prompt"
    /\ ret.op = "report"
    /\ Len(executed) >= 1

\* C12: read_file on a path that does not exist (resolved against the
\* session's working directory) returns File not found: followed by the
\* path as it was requested, and leaves the working directory, the process's
\* working directory and the command history as they were.
C12_ReadMissingFileReported ==
    [][\A file_path \in ReadPaths :
          (CallReadFile(file_path) /\ ~Exists(Resolve(working_dir, file_path))) =>
             /\ ret'.op = "read_file"
             /\ ret'.value = <<"File not found:", SP>> \o file_path
             /\ UNCHANGED <<working_dir, os_cwd, command_history, executed>>]_vars

\* The missing file was asked for from a directory below the root.
C12_Witness ==
    /\ ret.op = "read_file"
    /\ ret.value = <<"File not found:", SP, "missing">>
    /\ working_dir = <<"proj">>

\* The lines the prompt shows for one entry of the history.
EntryText(entry) ==
    <<"Command:", SP>> \o entry[1] \o <<NL, "Output:", SP>> \o entry[2] \o <<NL, NL>>

\* The first message of a request made with working directory wd and
\* history h, as C17 describes it: the request, the working directory, and
\* the last min(3, n) of the n entries of h, oldest first.
ExpectedFirstMessage(query, wd, h) ==
    LET n == Len(h)
    IN  system_prompt \o <<NL, NL, "User request:", SP>> \o query
            \o <<NL, "Current working directory:", SP>> \o PathText(wd)
            \o (IF n = 0 THEN << >> ELSE <<NL, "Previous command results:", NL>>)
            \o (IF n >= 3 THEN EntryText(h[n - 2]) ELSE << >>)
            \o (IF n >= 2 THEN EntryText(h[n - 1]) ELSE << >>)
            \o (IF n >= 1 THEN EntryText(h[n]) ELSE << >>)

\* C17: the first message of a request holds the working directory and
\* exactly the last min(3, n) entries of the command history as it stood
\* when the request started, in the order they were executed, and nothing
\* older; and it is the only message of its chat, so that no turn of an
\* earlier request is sent with it.
C17_PromptShowsLastThree ==
    (pc = "loop" /\ dispatched = << >>) =>
        /\ sent = <<ExpectedFirstMessage(user_input, working_dir, command_history)>>
        /\ Len(conversation) = 3
        /\ conversation[1].role = "system"
        /\ conversation[2].role = "user"
        /\ Contains(sent[1], conversation[2].content)

\* A request that started with five entries in the history, put there by
\* earlier requests, the third and the fourth of them different.
C17_Witness ==
    /\ pc = "loop"
    /\ dispatched = << >>
    /\ Len(command_history) = 5
    /\ command_history[3] # command_history[4]
    /\ Len(sent) = 1

\* C18: execute_command returns a string in every case: stdout alone on
\* exit status 0; on another status stdout followed (on a new line) by
\* stderr, or stderr alone when stdout is empty; ERROR: and the message when
\* running the command raises.  The pair of the command and that same
\* string is the entry added to the history, and the only one.
C18_ExecuteCommandObservation ==
    [][\A command \in Commands, run \in AllRuns :
          CallExecuteCommand(command, run) =>
             LET out == ret'.value
                 ran == IsDir(working_dir) /\ ~run.raises
             IN  /\ ret'.op = "execute_command"
                 /\ (ran /\ run.returncode = 0) => out = run.stdout
                 /\ (ran /\ run.returncode # 0 /\ run.stdout # << >>) =>
                        out = run.stdout \o <<NL>> \o run.stderr
                 /\ (ran /\ run.returncode # 0 /\ run.stdout = << >>) => out = run.stderr
                 /\ (IsDir(working_dir) /\ run.raises) => out = <<"ERROR:", SP>> \o run.msg
                 /\ ~IsDir(working_dir) => (out[1] = "ERROR:" /\ out[2] = SP)
                 /\ command_history' # << >>
                 /\ command_history'[Len(command_history')] = <<command, out>>
                 /\ Len(command_history') <= Len(command_history) + 1
                 /\ executed' = Append(executed, <<command, out>>)]_vars

\* A command wrote to both streams and failed; what it returned is what
\* the history holds for it.
C18_Witness ==
    /\ ret.op = "execute_command"
    /\ ret.value = <<X, NL, "err">>
    /\ command_history # << >>
    /\ command_history[Len(command_history)] = <<<<X>>, <<X, NL, "err">>>>

\* The contents of the turns of the conversation that the model wrote.
RECURSIVE AssistantContents(_)
AssistantContents(turns) ==
    IF turns = << >> THEN << >>
    ELSE (IF Head(turns).role = "assistant" THEN <<Head(turns).content>> ELSE << >>)
            \o AssistantContents(Tail(turns))

\* C19: for every result of process, process_request shows one thinking
\* step panel for each step the model wrote, in order, and for no other
\* step (no observation, and not the directive of a forced conclusion),
\* and shows the panel of the final response after them.
C19_PanelsForAssistantSteps ==
    [][(pc = "returned" /\ pc' = "prompt") =>
          LET panels == ret'.value
              bodies == AssistantContents(conversation)
              n      == Len(bodies)
          IN  /\ ret'.op = "render"
              /\ Len(panels) = n + 1
              /\ \A k \in 1..n :
                    /\ panels[k].body = bodies[k]
                    /\ panels[k].title = <<"Agent Thinking Step", k>>
                    /\ panels[k].body # final_prompt
                    /\ panels[k].body[1] # OB
              /\ panels[n + 1].title = <<"Terminal Assistant Final Response">>
              /\ panels[n + 1].body = result.response_text]_vars

\* The panels of a run that ended in a forced conclusion: twelve thinking
\* steps and the final response.
C19_Witness ==
    /\ pc = "prompt"
    /\ ret.op = "render"
    /\ Len(ret.value) = 13
    /\ ret.value[12].title = <<"Agent Thinking Step", 12>>

\* C20: in every state of a session, whatever cd requests and tool calls
\* came before, the session's working directory is an existing, resolved
\* path that execute_command can use as its directory.
C20_WorkingDirUsable ==
    /\ Exists(working_dir)
    /\ Resolve(<< >>, PathText(working_dir)) = working_dir
    /\ IsDir(working_dir)
    /\ \A command \in Commands, run \in ExecRuns :
          execute_command(command, run, working_dir, os_cwd, command_history).ret
             = run.stdout

\* C21: whenever a cd request fails (change_directory returns False and
\* Failed to change directory is reported), the session's working
\* directory, and the rest of the session's state, is what it was before.
C21_FailedCdChangesNothing ==
    [][\A input \in CdInputs :
          (RequestCd(input) /\ ret'.value[1] = "Failed to change directory to:") =>
             /\ working_dir' = working_dir
             /\ os_cwd' = os_cwd
             /\ command_history' = command_history]_vars

\* C22: between requests the session's working directory is the working
\* directory of the process: at the start of the session, after every cd
\* request whether it succeeded or failed, and after every execute_command
\* and find_files, which leave the process where they found it.
C22_SessionDirIsProcessDir ==
    /\ [](working_dir = os_cwd)
    /\ [][ret'.op \in {"execute_command", "find_files"} => os_cwd' = os_cwd]_vars

(***************************************************************************)
(* Properties of what process ends with                                    *)
(***************************************************************************)
\* C23: whatever the model replies, process ends with a Finish in
\* action_or_finish and returns its text, never the placeholder
\* Agent did not complete with a final answer. ; and the loop never meets
\* a reply that is neither final nor an Action, so its else branch is
\* never taken.
C23_AlwaysEndsWithFinish ==
    /\ pc = "returned" =>
          /\ action_or_finish.kind = "AgentFinish"
          /\ result.response_text = action_or_finish.output
          /\ result.response_text # <<"Agent did not complete with a final answer.">>
    /\ (pc = "loop" /\ ~is_done) => action_or_finish.kind = "AgentAction"

\* The reply to the directive was still an Action, and process returned
\* the Finish made of it.
C23_Witness ==
    /\ pc = "returned"
    /\ directives = 1
    /\ ~is_done
    /\ action_or_finish.kind = "AgentFinish"
    /\ result.response_text = ReplyExec

(***************************************************************************)
(* The frame of the tools                                                  *)
(***************************************************************************)
\* The search command find_files runs for a pattern, as its text reads.
SearchCommandOf(pattern) ==
    <<"find . -type f -name '">> \o pattern \o <<"' -o -path '*">> \o pattern
        \o <<"*' 2>/dev/null | sort">>

\* C24: read_file and list_directory leave the command history and the
\* working directory as they were; execute_command and find_files leave
\* the working directory as it was and add exactly one entry to the
\* history, which for find_files is the search command it ran; and a cd
\* request leaves the history as it was.
C24_ToolFrames ==
    [][/\ ret'.op \in {"read_file", "list_directory"} =>
              /\ command_history' = command_history
              /\ executed' = executed
              /\ working_dir' = working_dir
       /\ ret'.op \in {"execute_command", "find_files"} =>
              /\ working_dir' = working_dir
              /\ Len(executed') = Len(executed) + 1
              /\ SubSeq(executed', 1, Len(executed)) = executed
              /\ LET entry == executed'[Len(executed')]
                 IN  /\ command_history' \in {Append(command_history, entry),
                                              Tail(Append(command_history, entry))}
                     /\ ret'.op = "find_files" =>
                            \E pattern \in Patterns : entry[1] = SearchCommandOf(pattern)
                     /\ ret'.op = "execute_command" => entry[1] \in Commands
       /\ ret'.op = "cd" =>
              /\ command_history' = command_history
              /\ executed' = executed]_vars

\* find_files was the first tool to run, and the one entry of the history
\* is the search command, which nobody asked execute_command to run.
C24_Witness ==
    /\ ret.op = "find_files"
    /\ Len(command_history) = 1
    /\ command_history[1][1] = SearchCommandOf(<<"*.py">>)
    /\ executed = command_history

=============================================================================
